---- MODULE Spec2Model ----
(***************************************************************************)
(* Survey backend: the public submission route (routes/surveys.js), the    *)
(* admin list / get / delete routes (routes/adminSurveys.js), the Basic    *)
(* Auth middleware (middleware/basicAuth.js) and the wiring of server.js.  *)
(*                                                                         *)
(* A JavaScript string is a sequence of one-character strings.  null and   *)
(* undefined are the one-element sequences Null and Undefined, whose       *)
(* element is no character.  A JavaScript number is a record               *)
(* [nan, v]: NaN, or the integer v.                                        *)
(***************************************************************************)
EXTENDS Integers, Sequences, FiniteSets, TLC

VARIABLES
    surveys,   \* the rows of table surveys
    nextId,    \* the table's AUTO_INCREMENT counter
    pool,      \* connections of the pool that are checked out
    env,       \* process.env: ADMIN_USER, ADMIN_PASS, EMAILJS_* (read-only)
    req,       \* per request slot: the handler's position and its locals
    sent,      \* what the step just taken sent to a client (or nothing)
    submitted, \* history: id -> the body whose insert returned that id
    deleted    \* history: ids whose DELETE affected a row

vars == <<surveys, nextId, pool, env, req, sent, submitted, deleted>>

\* Bounds of the model.
MaxReq == 2
MaxId == 2

Slots == 1..MaxReq

(***************************************************************************)
(* JavaScript values                                                       *)
(***************************************************************************)
Null == <<"null">>
Undefined == <<"undefined">>

\* !v for a string, null or undefined.
Falsy(v) == v = Null \/ v = Undefined \/ v = <<>>

\* v || d
OrElse(v, d) == IF Falsy(v) THEN d ELSE v

NaN == [nan |-> TRUE, v |-> 0]
Num(n) == [nan |-> FALSE, v |-> n]

DigitChars == <<"0", "1", "2", "3", "4", "5", "6", "7", "8", "9">>
DigitIndex == [c \in {DigitChars[i] : i \in 1..10} |->
                  CHOOSE i \in 1..10 : DigitChars[i] = c]
IsDigit(c) == c \in DOMAIN DigitIndex
DigitVal(c) == DigitIndex[c] - 1

IsSpace(c) == c \in {" ", "\t", "\n"}

RECURSIVE SkipSpace(_)
SkipSpace(s) ==
    IF s # <<>> /\ IsSpace(Head(s)) THEN SkipSpace(Tail(s)) ELSE s

RECURSIVE DropTrailingSpace(_)
DropTrailingSpace(s) ==
    IF s # <<>> /\ IsSpace(s[Len(s)])
    THEN DropTrailingSpace(SubSeq(s, 1, Len(s) - 1))
    ELSE s

\* String.prototype.trim
Trim(s) == DropTrailingSpace(SkipSpace(s))

\* The value of the longest prefix of digits of s, read after acc.
RECURSIVE DigitsValue(_, _)
DigitsValue(s, acc) ==
    IF s # <<>> /\ IsDigit(Head(s))
    THEN DigitsValue(Tail(s), 10 * acc + DigitVal(Head(s)))
    ELSE acc

\* parseInt(s, 10): leading white space, an optional sign, then digits; NaN
\* when no digit follows.
ParseInt(s) ==
    LET t == SkipSpace(s)
        neg == t # <<>> /\ Head(t) = "-"
        u == IF t # <<>> /\ Head(t) \in {"-", "+"} THEN Tail(t) ELSE t
    IN  IF u = <<>> \/ ~IsDigit(Head(u)) THEN NaN
        ELSE Num(IF neg THEN 0 - DigitsValue(u, 0) ELSE DigitsValue(u, 0))

\* Math.max(a, b) and Math.min(a, b) of an integer a and a number b.
MathMax(a, b) == IF b.nan THEN NaN ELSE Num(IF a >= b.v THEN a ELSE b.v)
MathMin(a, b) == IF b.nan THEN NaN ELSE Num(IF a <= b.v THEN a ELSE b.v)

NumSub(a, n) == IF a.nan THEN NaN ELSE Num(a.v - n)
NumMul(a, b) == IF a.nan \/ b.nan THEN NaN ELSE Num(a.v * b.v)

(***************************************************************************)
(* base64 and the Credential Checker (middleware/basicAuth.js)             *)
(***************************************************************************)
\* The printable ASCII characters, code 32 first (code 96 by its name).
AsciiChars ==
    <<" ", "!", "\"", "#", "$", "%", "&", "'", "(", ")", "*", "+", ",", "-",
      ".", "/", "0", "1", "2", "3", "4", "5", "6", "7", "8", "9", ":", ";",
      "<", "=", ">", "?", "@", "A", "B", "C", "D", "E", "F", "G", "H", "I",
      "J", "K", "L", "M", "N", "O", "P", "Q", "R", "S", "T", "U", "V", "W",
      "X", "Y", "Z", "[", "\\", "]", "^", "_", "grave", "a", "b", "c", "d", "e",
      "f", "g", "h", "i", "j", "k", "l", "m", "n", "o", "p", "q", "r", "s",
      "t", "u", "v", "w", "x", "y", "z", "{", "|", "}", "~">>

AsciiIndex == [c \in {AsciiChars[i] : i \in 1..Len(AsciiChars)} |->
                  CHOOSE i \in 1..Len(AsciiChars) : AsciiChars[i] = c]
CharCode(c) == 31 + AsciiIndex[c]

\* Buffer.toString('utf8') of one byte of the payloads checked here: ASCII
\* as itself, a control byte or a stray byte above 127 as no ASCII character.
ByteChar(b) == IF b >= 32 /\ b <= 126 THEN AsciiChars[b - 31] ELSE "\\uFFFD"

B64Chars ==
    <<"A", "B", "C", "D", "E", "F", "G", "H", "I", "J", "K", "L", "M", "N",
      "O", "P", "Q", "R", "S", "T", "U", "V", "W", "X", "Y", "Z", "a", "b",
      "c", "d", "e", "f", "g", "h", "i", "j", "k", "l", "m", "n", "o", "p",
      "q", "r", "s", "t", "u", "v", "w", "x", "y", "z", "0", "1", "2", "3",
      "4", "5", "6", "7", "8", "9", "+", "/">>

B64Index == [c \in {B64Chars[i] : i \in 1..64} |->
                CHOOSE i \in 1..64 : B64Chars[i] = c]
IsB64(c) == c \in DOMAIN B64Index
B64Val(c) == B64Index[c] - 1

\* What a client does: the base64 text of a sequence of bytes.
RECURSIVE Base64Encode(_)
Base64Encode(bytes) ==
    IF bytes = <<>> THEN <<>>
    ELSE IF Len(bytes) = 1 THEN
        <<B64Chars[(bytes[1] \div 4) + 1],
          B64Chars[((bytes[1] % 4) * 16) + 1], "=", "=">>
    ELSE IF Len(bytes) = 2 THEN
        <<B64Chars[(bytes[1] \div 4) + 1],
          B64Chars[((bytes[1] % 4) * 16 + bytes[2] \div 16) + 1],
          B64Chars[((bytes[2] % 16) * 4) + 1], "=">>
    ELSE
        <<B64Chars[(bytes[1] \div 4) + 1],
          B64Chars[((bytes[1] % 4) * 16 + bytes[2] \div 16) + 1],
          B64Chars[((bytes[2] % 16) * 4 + bytes[3] \div 64) + 1],
          B64Chars[(bytes[3] % 64) + 1]>>
        \o Base64Encode(SubSeq(bytes, 4, Len(bytes)))

StrBytes(s) == [i \in 1..Len(s) |-> CharCode(s[i])]

\* "Basic " + base64(user + ":" + pass), split at its spaces.
BasicHeader(user, pass) ==
    << <<"B", "a", "s", "i", "c">>,
       Base64Encode(StrBytes(user \o <<":">> \o pass)) >>

\* The sextets of a base64 text as Buffer.from(text, 'base64') reads them: it
\* stops at the first '=', and skips every other character outside the alphabet.
RECURSIVE Sextets(_)
Sextets(text) ==
    IF text = <<>> \/ Head(text) = "=" THEN <<>>
    ELSE IF IsB64(Head(text)) THEN <<B64Val(Head(text))>> \o Sextets(Tail(text))
    ELSE Sextets(Tail(text))

\* The bytes of a sequence of sextets; a trailing lone sextet gives no byte.
RECURSIVE SextetBytes(_)
SextetBytes(x) ==
    IF Len(x) < 2 THEN <<>>
    ELSE IF Len(x) = 2 THEN <<x[1] * 4 + x[2] \div 16>>
    ELSE IF Len(x) = 3 THEN
        <<x[1] * 4 + x[2] \div 16, (x[2] % 16) * 16 + x[3] \div 4>>
    ELSE
        <<x[1] * 4 + x[2] \div 16, (x[2] % 16) * 16 + x[3] \div 4,
          (x[3] % 4) * 64 + x[4]>>
        \o SextetBytes(SubSeq(x, 5, Len(x)))

\* Buffer.from(base64, 'base64').toString('utf8')
Base64Decode(text) ==
    LET bytes == SextetBytes(Sextets(text))
    IN  [i \in 1..Len(bytes) |-> ByteChar(bytes[i])]

\* The index of the first ':' of s at or after i, or 0.
RECURSIVE IndexOfColon(_, _)
IndexOfColon(s, i) ==
    IF i > Len(s) THEN 0
    ELSE IF s[i] = ":" THEN i
    ELSE IndexOfColon(s, i + 1)

\* const [user, pass] = decoded.split(':')
SplitUser(decoded) ==
    LET i == IndexOfColon(decoded, 1)
    IN  IF i = 0 THEN decoded ELSE SubSeq(decoded, 1, i - 1)

SplitPass(decoded) ==
    LET i == IndexOfColon(decoded, 1)
        j == IF i = 0 THEN 0 ELSE IndexOfColon(decoded, i + 1)
    IN  IF i = 0 THEN Undefined
        ELSE IF j = 0 THEN SubSeq(decoded, i + 1, Len(decoded))
        ELSE SubSeq(decoded, i + 1, j - 1)

\* An Authorization header is the sequence of the words between its spaces
\* (header.split(' ')); an absent header is NoHeader.
NoHeader == <<Undefined>>
BasicWord == <<"B", "a", "s", "i", "c">>
NoCreds == [present |-> FALSE, user |-> Undefined, pass |-> Undefined]

\* header.startsWith('Basic ')
StartsWithBasic(header) == Len(header) >= 2 /\ header[1] = BasicWord

parseBasicAuth(header) ==
    IF header = NoHeader \/ header = <<<<>>>> \/ ~StartsWithBasic(header)
    THEN NoCreds
    ELSE LET decoded == Base64Decode(header[2])
         IN  [present |-> TRUE, user |-> SplitUser(decoded), pass |-> SplitPass(decoded)]

\* basicAuth's decision: next() is called.
Accepts(header, e) ==
    LET creds == parseBasicAuth(header)
    IN  /\ creds.present
        /\ creds.user = e.ADMIN_USER
        /\ creds.pass = e.ADMIN_PASS

(***************************************************************************)
(* The store: table surveys, as the statements of the routes use it        *)
(***************************************************************************)
\* The DATETIME the store reads from the text of a timestamp parameter.
TimeOf(text) == DigitsValue(text, 0)

\* The INT the store reads from the text of an :id parameter.
IdOf(text) == DigitsValue(text, 0)

NoRow ==
    [id |-> 0, brand_name |-> Null, brand_service |-> Null, description |-> Null,
     responses |-> <<>>, is_submitted |-> 0, submitted_at |-> 0]

\* t LIKE p: '%' is any run of characters, '_' any one character, and a
\* backslash takes the next character of p literally.
RECURSIVE Like(_, _)
Like(t, p) ==
    IF p = <<>> THEN t = <<>>
    ELSE IF Head(p) = "%" THEN
        Like(t, Tail(p)) \/ (t # <<>> /\ Like(Tail(t), p))
    ELSE IF Head(p) = "\\" /\ Len(p) >= 2 THEN
        t # <<>> /\ Head(t) = p[2] /\ Like(Tail(t), Tail(Tail(p)))
    ELSE
        t # <<>> /\ (Head(p) = "_" \/ Head(p) = Head(t)) /\ Like(Tail(t), Tail(p))

\* column LIKE ? : never true of a NULL column.
ColLike(v, p) == v # Null /\ Like(v, p)

\* The optional filter clause shared by the count and the data query.
LikeParam(search) == <<"%">> \o search \o <<"%">>

MatchesNoFilter(row, search) == TRUE

Matches(row, search) ==
    \/ search = <<>>
    \/ ColLike(row.brand_name, LikeParam(search))
    \/ ColLike(row.brand_service, LikeParam(search))
    \/ ColLike(row.description, LikeParam(search))

Filtered(rows, search) == {row \in rows : Matches(row, search)}

\* SELECT COUNT(*) as cnt FROM surveys [WHERE ...]
CountRows(rows, search) == Cardinality(Filtered(rows, search))

\* ORDER BY submitted_at DESC, id DESC
ComesBeforeNoTieBreak(a, b) == a.submitted_at > b.submitted_at

ComesBefore(a, b) ==
    \/ a.submitted_at > b.submitted_at
    \/ (a.submitted_at = b.submitted_at /\ a.id > b.id)

RECURSIVE Ordered(_)
Ordered(rows) ==
    IF rows = {} THEN <<>>
    ELSE LET first == CHOOSE a \in rows :
                 \A b \in rows \ {a} : ComesBefore(a, b) \/ ~ComesBefore(b, a)
         IN  <<first>> \o Ordered(rows \ {first})

\* LIMIT ? OFFSET ? takes non-negative integers; anything else is a syntax
\* error of the statement.
LimitOk(limit, offset) ==
    ~limit.nan /\ ~offset.nan /\ limit.v >= 0 /\ offset.v >= 0

WindowFromOffsetPlusOne(all, limit, offset) ==
    SubSeq(all, offset + 2, IF offset + limit + 1 <= Len(all)
                            THEN offset + limit + 1 ELSE Len(all))

Window(all, limit, offset) ==
    SubSeq(all, offset + 1, IF offset + limit <= Len(all)
                            THEN offset + limit ELSE Len(all))

\* SELECT ... FROM surveys [WHERE ...] ORDER BY ... LIMIT ? OFFSET ?
SelectPage(rows, search, limit, offset) ==
    Window(Ordered(Filtered(rows, search)), limit, offset)

\* SELECT * FROM surveys WHERE id = ? LIMIT 1
SelectById(rows, idText) == {row \in rows : row.id = IdOf(idText)}

\* DELETE FROM surveys WHERE id = ?
DeleteByIdAll(rows, idText) == {}

DeleteById(rows, idText) == {row \in rows : row.id # IdOf(idText)}

(***************************************************************************)
(* POST /api/surveys (routes/surveys.js)                                   *)
(***************************************************************************)
NoBody ==
    [brand_name |-> Null, brand_service |-> Null, target_audience |-> Null,
     business_why |-> Null, customer_impression |-> Null, contact |-> Null,
     submitted_at |-> Null]

\* The handler's validation: every semantic field is falsy.
AllEmptyNullOnly(b) ==
    /\ b.brand_service = Null
    /\ b.target_audience = Null
    /\ b.business_why = Null
    /\ b.customer_impression = Null
    /\ b.contact = Null
    /\ b.brand_name = Null

AllEmpty(b) ==
    /\ Falsy(b.brand_service)
    /\ Falsy(b.target_audience)
    /\ Falsy(b.business_why)
    /\ Falsy(b.customer_impression)
    /\ Falsy(b.contact)
    /\ Falsy(b.brand_name)

\* JSON.stringify of a string or null.  The text is a sequence of characters,
\* with each fixed key written as one element.
RECURSIVE JsonEscape(_)
JsonEscape(s) ==
    IF s = <<>> THEN <<>>
    ELSE IF Head(s) \in {"\"", "\\"} THEN <<"\\", Head(s)>> \o JsonEscape(Tail(s))
    ELSE <<Head(s)>> \o JsonEscape(Tail(s))

JsonValue(v) ==
    IF v = Null THEN <<"null">> ELSE <<"\"">> \o JsonEscape(v) \o <<"\"">>

\* JSON.stringify({ target_audience, business_why, customer_impression, contact })
ResponsesOfNoContact(b) ==
    <<"{", "\"target_audience\":">> \o JsonValue(b.target_audience)
    \o <<",", "\"business_why\":">> \o JsonValue(b.business_why)
    \o <<",", "\"customer_impression\":">> \o JsonValue(b.customer_impression)
    \o <<"}">>

ResponsesOf(b) ==
    <<"{", "\"target_audience\":">> \o JsonValue(b.target_audience)
    \o <<",", "\"business_why\":">> \o JsonValue(b.business_why)
    \o <<",", "\"customer_impression\":">> \o JsonValue(b.customer_impression)
    \o <<",", "\"contact\":">> \o JsonValue(b.contact)
    \o <<"}">>

\* The row the INSERT adds: its parameters are brand_name, brand_service,
\* brand_service again (description), responses, 1, submitted_at || new Date().
InsertedRow(id, b, now) ==
    [id |-> id,
     brand_name |-> b.brand_name,
     brand_service |-> b.brand_service,
     description |-> b.brand_service,
     responses |-> ResponsesOf(b),
     is_submitted |-> 1,
     submitted_at |-> TimeOf(OrElse(b.submitted_at, now))]

(***************************************************************************)
(* GET /api/admin/surveys: the query parameters (routes/adminSurveys.js)   *)
(***************************************************************************)
NoQuery == [page |-> Undefined, limit |-> Undefined, search |-> Undefined]

PageOf(q) == MathMax(1, ParseInt(OrElse(q.page, <<"1">>)))
LimitOf(q) == MathMin(100, ParseInt(OrElse(q.limit, <<"2", "0">>)))
OffsetOf(q) == NumMul(NumSub(PageOf(q), 1), LimitOf(q))
SearchOf(q) == Trim(OrElse(q.search, <<>>))

(***************************************************************************)
(* Requests and responses                                                  *)
(***************************************************************************)
IdleReq ==
    [kind |-> "idle", pc |-> "idle", body |-> NoBody, header |-> NoHeader,
     query |-> NoQuery, id |-> <<>>, admin |-> Undefined, total |-> 0,
     status |-> 0, insertedId |-> 0]

NewReq(kind, body, header, query, id, admin) ==
    [IdleReq EXCEPT !.kind = kind, !.pc = "acquire", !.body = body,
                    !.header = header, !.query = query, !.id = id,
                    !.admin = admin]

NoResp ==
    [status |-> 0, challenge |-> FALSE, error |-> "", id |-> 0,
     deletedId |-> <<>>, row |-> NoRow, items |-> <<>>, total |-> 0,
     page |-> Num(0), limit |-> Num(0)]

ErrorResp(status, message) == [NoResp EXCEPT !.status = status, !.error = message]

\* What a step leaves in sent: the slot that acted, its request, the response
\* it sent (status 0: none) and a note of what it logged.  Quiet: a step
\* that neither sent nor logged.
NoError == [message |-> "", code |-> "", sql |-> ""]

Quiet ==
    [slot |-> 0, req |-> IdleReq, resp |-> NoResp, note |-> "none", err |-> NoError]

\* The step answered the request rq of slot r with resp.
Answer(r, rq, resp) == [Quiet EXCEPT !.slot = r, !.req = rq, !.resp = resp]

\* The step's await threw err, and the request rq of slot r was answered with
\* resp (status 0: not answered).
Failure(r, rq, resp, err) == [Answer(r, rq, resp) EXCEPT !.err = err]

\* An error of the store or of the pool, as the handlers' catch blocks see it.
StoreErrors ==
    {[message |-> "connect ECONNREFUSED", code |-> "ECONNREFUSED", sql |-> ""],
     [message |-> "Table 'surveys' doesn't exist", code |-> "ER_NO_SUCH_TABLE",
      sql |-> "SELECT"]}

SyntaxError ==
    [message |-> "You have an error in your SQL syntax", code |-> "ER_PARSE_ERROR",
     sql |-> "SELECT"]

\* The pool of db.js (connectionLimit).
ConnectionLimit == 10

\* The first statement of each handler.
FirstPc(kind) ==
    CASE kind = "submit" -> "insert"
      [] kind = "list" -> "count"
      [] kind = "get" -> "select"
      [] kind = "delete" -> "delete"

\* The body of the 500 each handler's catch block sends.
CatchMessageLeaky(kind, err) == err.message

CatchMessage(kind, err) ==
    CASE kind = "submit" -> "Failed to save survey"
      [] kind = "list" -> "Failed to fetch surveys"
      [] kind = "get" -> "Failed to fetch survey detail"
      [] kind = "delete" -> "Failed to delete survey"

\* Inserts in flight: each will take one more id.
InsertsInFlight ==
    Cardinality({r \in Slots : req[r].kind = "submit" /\ req[r].pc \in {"acquire", "insert"}})

EmailConfigured(e) ==
    ~Falsy(e.EMAILJS_SERVICE_ID) /\ ~Falsy(e.EMAILJS_TEMPLATE_ID)
    /\ ~Falsy(e.EMAILJS_USER_ID)

(***************************************************************************)
(* Actions                                                                 *)
(***************************************************************************)
\* POST /api/surveys up to its first await: validation, then
\* pool.getConnection() is pending.
SubmitArrive(r, body) ==
    /\ req[r].kind = "idle"
    /\ IF AllEmpty(body)
       THEN /\ sent' = Answer(r, NewReq("submit", body, NoHeader, NoQuery, <<>>, Undefined),
                              ErrorResp(400, "At least one field is required"))
            /\ req' = req
       ELSE /\ nextId + InsertsInFlight <= MaxId
            /\ req' = [req EXCEPT ![r] =
                          NewReq("submit", body, NoHeader, NoQuery, <<>>, Undefined)]
            /\ sent' = Quiet
    /\ UNCHANGED <<surveys, nextId, pool, env, submitted, deleted>>

\* basicAuth's rejection: the challenge header and a 401.
Rejection(header) ==
    [ErrorResp(401, IF parseBasicAuth(header).present
                    THEN "Unauthorized"
                    ELSE "Missing or invalid Authorization header")
     EXCEPT !.challenge = TRUE]

\* A request to /api/admin/surveys: basicAuth, then the handler up to its
\* first await (pool.getConnection() is pending).
AdminArrive(r, kind, header, query, id) ==
    /\ req[r].kind = "idle"
    /\ kind \in {"list", "get", "delete"}
    /\ IF Accepts(header, env)
       THEN /\ req' = [req EXCEPT ![r] =
                          NewReq(kind, NoBody, header, query, id,
                                 parseBasicAuth(header).user)]
            /\ sent' = Quiet
       ELSE /\ sent' = Answer(r, NewReq(kind, NoBody, header, query, id, Undefined),
                              Rejection(header))
            /\ req' = req
    /\ UNCHANGED <<surveys, nextId, pool, env, submitted, deleted>>

\* pool.getConnection() resolves.
Acquire(r) ==
    /\ req[r].pc = "acquire"
    /\ pool < ConnectionLimit
    /\ pool' = pool + 1
    /\ req' = [req EXCEPT ![r].pc = FirstPc(req[r].kind)]
    /\ sent' = Quiet
    /\ UNCHANGED <<surveys, nextId, env, submitted, deleted>>

\* pool.getConnection() rejects.  The admin handlers await it inside their
\* try; the submission handler awaits it before its try, so the rejection
\* leaves the handler: the framework either drops it (an unhandled rejection;
\* the client gets no response) or hands it to the error middleware of
\* server.js, as its version decides.
AcquireFail(r, err, forwards) ==
    /\ req[r].pc = "acquire"
    /\ err \in StoreErrors
    /\ sent' = IF req[r].kind # "submit"
               THEN Failure(r, req[r], ErrorResp(500, CatchMessage(req[r].kind, err)), err)
               ELSE IF forwards
               THEN Failure(r, req[r], ErrorResp(500, "Server error"), err)
               ELSE [Failure(r, req[r], NoResp, err) EXCEPT !.note = "unhandledRejection"]
    /\ req' = [req EXCEPT ![r] = IdleReq]
    /\ UNCHANGED <<surveys, nextId, pool, env, submitted, deleted>>

\* A catch block that answers 500 and keeps the connection.
StatementFailKeepsConnection(r, err) ==
    /\ req[r].pc \in {"insert", "count", "data", "select", "delete"}
    /\ err \in StoreErrors
    /\ sent' = Failure(r, req[r], ErrorResp(500, CatchMessage(req[r].kind, err)), err)
    /\ req' = [req EXCEPT ![r] = IdleReq]
    /\ pool' = pool
    /\ UNCHANGED <<surveys, nextId, env, submitted, deleted>>

\* A statement of the handler fails: its catch block answers 500 and its
\* finally block releases the connection.
StatementFail(r, err) ==
    /\ req[r].pc \in {"insert", "count", "data", "select", "delete"}
    /\ err \in StoreErrors
    /\ sent' = Failure(r, req[r], ErrorResp(500, CatchMessage(req[r].kind, err)), err)
    /\ req' = [req EXCEPT ![r] = IdleReq]
    /\ pool' = pool - 1
    /\ UNCHANGED <<surveys, nextId, env, submitted, deleted>>

\* What sendEmailNotification does with the outcome of axios.post: it
\* resolves, having logged it, whatever the outcome.
NotifyResultRethrows(outcome) == IF outcome = "sent" THEN "resolved" ELSE "rejected"

NotifyResult(outcome) == "resolved"

\* The INSERT resolves: 201 { id }, the notification is started and not
\* awaited, and the connection is released.
InsertDone(r, now) ==
    /\ req[r].pc = "insert"
    /\ surveys' = surveys \cup {InsertedRow(nextId, req[r].body, now)}
    /\ nextId' = nextId + 1
    /\ submitted' = [id \in DOMAIN submitted \cup {nextId} |->
                        IF id = nextId THEN req[r].body ELSE submitted[id]]
    /\ sent' = Answer(r, req[r], [NoResp EXCEPT !.status = 201, !.id = nextId])
    /\ req' = [req EXCEPT ![r] =
                  IF EmailConfigured(env)
                  THEN [req[r] EXCEPT !.pc = "notify", !.status = 201,
                                      !.insertedId = nextId]
                  ELSE IdleReq]
    /\ pool' = pool - 1
    /\ UNCHANGED <<env, deleted>>

\* axios.post settles (a 2xx, another status, a transport error, the 8 s
\* timeout), after the response has gone.  Nothing is sent to the client; the
\* note is the line logged.
NotifySettle(r, outcome) ==
    /\ req[r].pc = "notify"
    /\ outcome \in {"sent", "status", "transport", "timeout"}
    /\ sent' = [Answer(r, req[r], NoResp) EXCEPT !.note =
                         IF NotifyResult(outcome) = "rejected"
                         THEN "Unexpected error sending EmailJS notification"
                         ELSE IF outcome = "sent"
                         THEN "EmailJS notification sent"
                         ELSE "EmailJS notify error"]
    /\ req' = [req EXCEPT ![r] = IdleReq]
    /\ UNCHANGED <<surveys, nextId, pool, env, submitted, deleted>>

\* The count query resolves.
CountDone(r) ==
    /\ req[r].pc = "count"
    /\ req' = [req EXCEPT ![r].pc = "data",
                          ![r].total = CountRows(surveys, SearchOf(req[r].query))]
    /\ sent' = Quiet
    /\ UNCHANGED <<surveys, nextId, pool, env, submitted, deleted>>

ListResp(q, rows, total) ==
    [NoResp EXCEPT !.status = 200, !.items = rows, !.total = total,
                   !.page = PageOf(q), !.limit = LimitOf(q)]

\* The data query settles: with the page, or with a syntax error when its
\* LIMIT or OFFSET is no non-negative integer.
DataDone(r) ==
    /\ req[r].pc = "data"
    /\ LET q == req[r].query
       IN  sent' = IF LimitOk(LimitOf(q), OffsetOf(q))
                   THEN Answer(r, req[r],
                               ListResp(q, SelectPage(surveys, SearchOf(q),
                                                      LimitOf(q).v, OffsetOf(q).v),
                                        req[r].total))
                   ELSE Failure(r, req[r],
                                ErrorResp(500, CatchMessage("list", SyntaxError)),
                                SyntaxError)
    /\ req' = [req EXCEPT ![r] = IdleReq]
    /\ pool' = pool - 1
    /\ UNCHANGED <<surveys, nextId, env, submitted, deleted>>

\* SELECT * ... WHERE id = ? resolves: the row, or 404.
SelectDone(r) ==
    /\ req[r].pc = "select"
    /\ LET rows == SelectById(surveys, req[r].id)
       IN  sent' = IF rows = {}
                   THEN Answer(r, req[r], ErrorResp(404, "Not found"))
                   ELSE Answer(r, req[r],
                               [NoResp EXCEPT !.status = 200,
                                              !.row = CHOOSE row \in rows : TRUE])
    /\ req' = [req EXCEPT ![r] = IdleReq]
    /\ pool' = pool - 1
    /\ UNCHANGED <<surveys, nextId, env, submitted, deleted>>

\* DELETE ... WHERE id = ? resolves: 404 when it affected no row, else the id.
DeleteDone(r) ==
    /\ req[r].pc = "delete"
    /\ LET left == DeleteById(surveys, req[r].id)
           gone == {row.id : row \in surveys \ left}
       IN  /\ surveys' = left
           /\ deleted' = deleted \cup gone
           /\ submitted' = [id \in DOMAIN submitted \ gone |-> submitted[id]]
           /\ sent' = IF gone = {}
                      THEN Answer(r, req[r], ErrorResp(404, "Not found"))
                      ELSE Answer(r, req[r],
                                  [NoResp EXCEPT !.status = 200, !.deletedId = req[r].id])
    /\ req' = [req EXCEPT ![r] = IdleReq]
    /\ pool' = pool - 1
    /\ UNCHANGED <<nextId, env>>

(***************************************************************************)
(* Initial states                                                          *)
(***************************************************************************)
InitWith(envs) ==
    /\ env \in envs
    /\ surveys = {}
    /\ nextId = 1
    /\ pool = 0
    /\ req = [r \in Slots |-> IdleReq]
    /\ sent = Quiet
    /\ submitted = <<>>
    /\ deleted = {}

(***************************************************************************)
(* The workloads checked                                                   *)
(***************************************************************************)
ValidEnv ==
    [ADMIN_USER |-> <<"u">>, ADMIN_PASS |-> <<"p">>,
     EMAILJS_SERVICE_ID |-> <<"s">>, EMAILJS_TEMPLATE_ID |-> <<"t">>,
     EMAILJS_USER_ID |-> <<"k">>]

GoodHeader == BasicHeader(<<"u">>, <<"p">>)

\* Bodies with every semantic field empty or absent.
EmptyBodies ==
    {NoBody,
     [NoBody EXCEPT !.brand_name = <<>>, !.brand_service = <<>>,
                    !.target_audience = <<>>, !.business_why = <<>>,
                    !.customer_impression = <<>>, !.contact = <<>>,
                    !.submitted_at = <<"2">>]}

\* Bodies with a semantic field that is not empty.
FilledBodies ==
    {[NoBody EXCEPT !.brand_name = <<"a">>, !.target_audience = <<"t">>,
                    !.business_why = <<"n", "u", "l", "l">>,
                    !.customer_impression = <<>>],
     [NoBody EXCEPT !.brand_service = <<"s">>, !.brand_name = <<>>,
                    !.contact = <<"\"", "\\">>, !.submitted_at = <<"2">>]}

\* :id parameters; no row ever has id 9.
IdParams == {<<"1">>, <<"2">>}

Outcomes == {"sent", "status", "transport", "timeout"}

Init == InitWith({ValidEnv, [ValidEnv EXCEPT !.EMAILJS_USER_ID = Undefined]})

Next ==
    \E r \in Slots :
        \/ \E b \in EmptyBodies \cup FilledBodies : SubmitArrive(r, b)
        \/ \E k \in {"get", "delete"}, h \in {GoodHeader}, id \in IdParams :
               AdminArrive(r, k, h, NoQuery, id)
        \/ Acquire(r)
        \/ InsertDone(r, <<"1">>)
        \/ \E o \in Outcomes : NotifySettle(r, o)
        \/ SelectDone(r)
        \/ DeleteDone(r)

Spec == Init /\ [][Next]_vars

\* The listing workload: submissions, list requests and deletions; no
\* notification is configured.
ListEnv == [ValidEnv EXCEPT !.EMAILJS_SERVICE_ID = Undefined]

ListBodies ==
    {[NoBody EXCEPT !.brand_name = <<"a">>, !.submitted_at = <<"2">>],
     [NoBody EXCEPT !.brand_service = <<"b">>]}

ListQueries ==
    {NoQuery,
     [NoQuery EXCEPT !.page = <<"2">>, !.limit = <<"1">>],
     [NoQuery EXCEPT !.page = <<"0">>, !.limit = <<"1">>],
     [NoQuery EXCEPT !.search = <<"a">>],
     [NoQuery EXCEPT !.search = <<"_">>],
     [NoQuery EXCEPT !.limit = <<"-", "1">>]}

InitList == InitWith({ListEnv})

NextList ==
    \E r \in Slots :
        \/ \E b \in ListBodies : SubmitArrive(r, b)
        \/ \E q \in ListQueries : AdminArrive(r, "list", GoodHeader, q, <<>>)
        \/ AdminArrive(r, "delete", GoodHeader, NoQuery, <<"1">>)
        \/ Acquire(r)
        \/ \E now \in {<<"1">>, <<"2">>} : InsertDone(r, now)
        \/ CountDone(r)
        \/ DataDone(r)
        \/ DeleteDone(r)

SpecList == InitList /\ [][NextList]_vars

\* The credential workload: admin requests under several configurations and
\* headers; one kind of submission fills the table.
AuthEnvs ==
    {ListEnv,
     [ListEnv EXCEPT !.ADMIN_PASS = <<"p", ":", "q">>],
     [ListEnv EXCEPT !.ADMIN_PASS = Undefined]}

AuthHeaders ==
    {NoHeader,
     <<<<>>>>,
     <<<<"B", "e", "a", "r", "e", "r">>, <<"d", "T", "p", "w">>>>,
     <<BasicWord>>,
     <<BasicWord, <<>>>>,
     <<BasicWord, <<"!", "!">>>>,
     <<BasicWord, Base64Encode(StrBytes(<<"u">>))>>,
     BasicHeader(<<"u">>, <<"p">>),
     BasicHeader(<<"u">>, <<"p", ":", "q">>),
     BasicHeader(<<"u">>, <<"x">>),
     BasicHeader(<<"x">>, <<"p">>)}

InitAuth == InitWith(AuthEnvs)

NextAuth ==
    \E r \in Slots :
        \/ SubmitArrive(r, [NoBody EXCEPT !.brand_name = <<"a">>])
        \/ \E k \in {"list", "get", "delete"}, h \in AuthHeaders :
               AdminArrive(r, k, h, NoQuery, <<"1">>)
        \/ Acquire(r)
        \/ InsertDone(r, <<"1">>)
        \/ CountDone(r)
        \/ DataDone(r)
        \/ SelectDone(r)
        \/ DeleteDone(r)

SpecAuth == InitAuth /\ [][NextAuth]_vars

\* The failure workload: the four handlers, with a pool and a store that may
\* fail at every await.
InitFault == InitWith({ListEnv})

NextFault ==
    \E r \in Slots :
        \/ SubmitArrive(r, [NoBody EXCEPT !.brand_name = <<"a">>])
        \/ \E k \in {"list", "get", "delete"} :
               AdminArrive(r, k, GoodHeader, NoQuery, <<"1">>)
        \/ Acquire(r)
        \/ \E err \in StoreErrors, forwards \in BOOLEAN : AcquireFail(r, err, forwards)
        \/ \E err \in StoreErrors : StatementFail(r, err)
        \/ InsertDone(r, <<"1">>)
        \/ CountDone(r)
        \/ DataDone(r)
        \/ SelectDone(r)
        \/ DeleteDone(r)

SpecFault == InitFault /\ [][NextFault]_vars

\* The parameter workload: list requests over the kinds of page and limit
\* values (absent, positive, zero, negative, not a number, above the ceiling).
ParamQueries ==
    {[NoQuery EXCEPT !.page = p] :
         p \in {Undefined, <<"3">>, <<"0">>, <<"-", "2">>, <<"x">>, <<"2", "x">>}}
    \cup
    {[NoQuery EXCEPT !.limit = l] :
         l \in {<<"5">>, <<"0">>, <<"-", "1">>, <<"x">>, <<"1", "0", "1">>}}
    \cup {[NoQuery EXCEPT !.page = <<"3">>, !.limit = <<"5">>]}

InitParams == InitWith({ListEnv})

NextParams ==
    \E r \in Slots :
        \/ \E q \in ParamQueries : AdminArrive(r, "list", GoodHeader, q, <<>>)
        \/ Acquire(r)
        \/ CountDone(r)
        \/ DataDone(r)

SpecParams == InitParams /\ [][NextParams]_vars

(***************************************************************************)
(* Claims                                                                  *)
(***************************************************************************)
SemanticFields ==
    {"brand_name", "brand_service", "target_audience", "business_why",
     "customer_impression", "contact"}

\* Every semantic field of the body is the empty string or absent.
SemanticallyEmpty(b) == \A f \in SemanticFields : b[f] \in {Null, <<>>}

\* The step just taken answered a request of this kind.
Answered(kind) == sent.slot # 0 /\ sent.req.kind = kind /\ sent.resp.status # 0

\* C1: a submission whose six semantic fields are all empty or absent is
\* answered 400 with a JSON error body, and no insert is performed for it: it
\* never reaches the statement, and no stored id belongs to such a body.
C1_EmptySubmissionRejected ==
    /\ (sent.slot # 0 /\ sent.req.kind = "submit" /\ SemanticallyEmpty(sent.req.body))
           => (sent.resp.status = 400 /\ sent.resp.error = "At least one field is required")
    /\ \A r \in Slots : req[r].kind = "submit" => ~SemanticallyEmpty(req[r].body)
    /\ \A id \in DOMAIN submitted : ~SemanticallyEmpty(submitted[id])

C1_Witness ==
    /\ Answered("submit")
    /\ sent.resp.status = 400
    /\ sent.req.body.brand_name = <<>>
    /\ surveys # {}

\* A JSON string literal of text t whose opening quote is before position i:
\* its value and the position after its closing quote.
RECURSIVE ReadString(_, _, _)
ReadString(t, i, acc) ==
    IF i > Len(t) THEN [ok |-> FALSE, v |-> acc, next |-> i]
    ELSE IF t[i] = "\"" THEN [ok |-> TRUE, v |-> acc, next |-> i + 1]
    ELSE IF t[i] = "\\" /\ i < Len(t) THEN ReadString(t, i + 2, Append(acc, t[i + 1]))
    ELSE ReadString(t, i + 1, Append(acc, t[i]))

ReadValue(t, i) ==
    IF i > Len(t) THEN [ok |-> FALSE, v |-> Null, next |-> i]
    ELSE IF t[i] = "null" THEN [ok |-> TRUE, v |-> Null, next |-> i + 1]
    ELSE IF t[i] = "\"" THEN ReadString(t, i + 1, <<>>)
    ELSE [ok |-> FALSE, v |-> Null, next |-> i]

ReadKey(t, i, key) == i <= Len(t) /\ t[i] = key

\* JSON.parse of a responses blob: the four auxiliary fields it encodes.
ParseResponses(t) ==
    LET a == ReadValue(t, 3)
        b == ReadValue(t, a.next + 2)
        c == ReadValue(t, b.next + 2)
        d == ReadValue(t, c.next + 2)
    IN  [ok |-> /\ ReadKey(t, 1, "{") /\ ReadKey(t, 2, "\"target_audience\":")
                /\ a.ok /\ ReadKey(t, a.next, ",")
                /\ ReadKey(t, a.next + 1, "\"business_why\":")
                /\ b.ok /\ ReadKey(t, b.next, ",")
                /\ ReadKey(t, b.next + 1, "\"customer_impression\":")
                /\ c.ok /\ ReadKey(t, c.next, ",")
                /\ ReadKey(t, c.next + 1, "\"contact\":")
                /\ d.ok /\ ReadKey(t, d.next, "}") /\ d.next = Len(t),
         target_audience |-> a.v, business_why |-> b.v,
         customer_impression |-> c.v, contact |-> d.v]

\* The row is the record of the submitted body b.
RecordOf(row, b) ==
    /\ row.brand_name = b.brand_name
    /\ row.brand_service = b.brand_service
    /\ LET p == ParseResponses(row.responses)
       IN  /\ p.ok
           /\ p.target_audience = b.target_audience
           /\ p.business_why = b.business_why
           /\ p.customer_impression = b.customer_impression
           /\ p.contact = b.contact

\* C2: a submission with a non-empty semantic field whose insert succeeds is
\* answered 201 with the id the store assigned, a positive integer; and an
\* authorized GET of an id that was so returned and not deleted since is
\* answered 200 with a row that carries the submitted brand_name and
\* brand_service and whose responses blob decodes to the submitted
\* target_audience, business_why, customer_impression and contact.
C2_SubmittedIsRetrievable ==
    /\ (Answered("submit") /\ ~SemanticallyEmpty(sent.req.body))
           => /\ sent.resp.status = 201
              /\ sent.resp.id >= 1
              /\ sent.resp.id = nextId - 1
              /\ sent.resp.id \in DOMAIN submitted
              /\ submitted[sent.resp.id] = sent.req.body
    /\ (Answered("get") /\ sent.resp.status # 401
        /\ IdOf(sent.req.id) \in DOMAIN submitted)
           => /\ sent.resp.status = 200
              /\ sent.resp.row.id = IdOf(sent.req.id)
              /\ RecordOf(sent.resp.row, submitted[IdOf(sent.req.id)])

C2_Witness ==
    /\ Answered("get")
    /\ sent.resp.status = 200
    /\ sent.resp.row.id = 2
    /\ submitted[2].contact = <<"\"", "\\">>
    /\ submitted[2].target_audience = Null
    /\ 1 \in deleted

\* C5: an authorized DELETE of a stored id is answered 200 with that id as
\* deletedId and removes that row and no other; a DELETE of an id that is
\* not stored is answered 404 and leaves the rows as they were; and a GET of
\* an id answered after a DELETE removed it is answered 404.
C5_DeleteStep(r) ==
    LET id == IdOf(req[r].id)
    IN  IF \E row \in surveys : row.id = id
        THEN /\ sent'.resp.status = 200
             /\ sent'.resp.deletedId = req[r].id
             /\ surveys' = {row \in surveys : row.id # id}
        ELSE /\ sent'.resp.status = 404
             /\ surveys' = surveys

C5_GetStep(r) ==
    IdOf(req[r].id) \in deleted => sent'.resp.status = 404

C5_DeleteRemovesExactlyOne ==
    [][\A r \in Slots :
          /\ (req[r].pc = "delete" /\ req'[r].pc = "idle") => C5_DeleteStep(r)
          /\ (req[r].pc = "select" /\ req'[r].pc = "idle") => C5_GetStep(r)]_vars

C5_Witness ==
    /\ Answered("get")
    /\ sent.resp.status = 404
    /\ IdOf(sent.req.id) \in deleted
    /\ surveys # {}

\* C9: the step in which the INSERT resolves sends 201 { id } and only starts
\* the notification call; when the call later settles, whatever its outcome,
\* nothing more is sent to the client, no error reaches the handler (the
\* outcome is only logged by the sender), and the rows are as they were.
C9_NotifyStep(r) ==
    /\ sent'.slot = r
    /\ sent'.resp.status = 0
    /\ sent'.req.status = 201
    /\ sent'.note \in {"EmailJS notification sent", "EmailJS notify error"}
    /\ surveys' = surveys

C9_NotificationIsDecoupled ==
    [][\A r \in Slots :
          /\ (req[r].pc # "notify" /\ req'[r].pc = "notify")
                 => (sent'.slot = r /\ sent'.resp.status = 201
                     /\ sent'.resp.id = req'[r].insertedId
                     /\ req'[r].status = 201)
          /\ (req[r].pc = "notify" /\ req'[r].pc # "notify") => C9_NotifyStep(r)
          /\ (req[r].pc = "notify" /\ req'[r].pc = "notify") => sent'.slot # r]_vars

C9_Witness ==
    /\ sent.slot # 0
    /\ sent.req.pc = "notify"
    /\ sent.req.status = 201
    /\ sent.note = "EmailJS notify error"
    /\ \E row \in surveys : row.id = sent.req.insertedId

\* Row a comes before row b by submission time descending, then id descending.
Precedes(a, b) ==
    \/ a.submitted_at > b.submitted_at
    \/ (a.submitted_at = b.submitted_at /\ a.id > b.id)

\* The rows of set S that come before row.
Rank(row, S) == Cardinality({x \in S : Precedes(x, row)})

\* items is the window of positions (P-1)*L .. P*L-1 (the first being 0) of
\* the rows S in that order, and has at most L elements.
IsWindow(items, S, P, L) ==
    /\ Len(items) <= L
    /\ \A i \in 1..Len(items) :
           items[i] \in S /\ Rank(items[i], S) = (P - 1) * L + (i - 1)
    /\ Len(items) =
           Cardinality({x \in S : Rank(x, S) >= (P - 1) * L /\ Rank(x, S) <= P * L - 1})

\* The page and limit a list request asks for (1 and 20 when absent).
AskedPage(q) == ParseInt(OrElse(q.page, <<"1">>))
AskedLimit(q) == ParseInt(OrElse(q.limit, <<"2", "0">>))

\* C6 as stated: the items of every 200 of a list request with limit=L and
\* page=P are the window (P-1)*L .. P*L-1 of the filtered rows, newest first.
C6_WindowOfAskedPage ==
    (Answered("list") /\ sent.resp.status = 200
     /\ ~AskedPage(sent.req.query).nan /\ ~AskedLimit(sent.req.query).nan)
        => IsWindow(sent.resp.items,
                    Filtered(surveys, SearchOf(sent.req.query)),
                    AskedPage(sent.req.query).v, AskedLimit(sent.req.query).v)

\* C6 amended: the items of every 200 of a list request are the window
\* (P-1)*L .. P*L-1 of the filtered rows ordered by submitted_at descending,
\* then id descending, where P and L are the page and limit the response
\* echoes: the asked page raised to 1, the asked limit lowered to 100.
C6_WindowOfEchoedPage ==
    (Answered("list") /\ sent.resp.status = 200)
        => /\ ~sent.resp.page.nan /\ ~sent.resp.limit.nan
           /\ sent.resp.page.v >= 1
           /\ sent.resp.limit.v <= 100
           /\ IsWindow(sent.resp.items,
                       Filtered(surveys, SearchOf(sent.req.query)),
                       sent.resp.page.v, sent.resp.limit.v)

C6_Witness ==
    /\ Answered("list")
    /\ sent.resp.status = 200
    /\ sent.resp.page.v = 2
    /\ sent.resp.limit.v = 1
    /\ Len(sent.resp.items) = 1
    /\ sent.resp.items[1].id = 1
    /\ \E row \in surveys : row.id = 2 /\ row.submitted_at = sent.resp.items[1].submitted_at

\* S occurs in t, character for character.
HasSubstring(t, S) ==
    /\ t # Null
    /\ \E i \in 0..(Len(t) - Len(S)) : SubSeq(t, i + 1, i + Len(S)) = S

MentionsLiterally(row, S) ==
    \/ HasSubstring(row.brand_name, S)
    \/ HasSubstring(row.brand_service, S)
    \/ HasSubstring(row.description, S)

\* C8: for a list request with a non-empty search string S, the count query
\* counts exactly the rows that have S as a literal substring of brand_name,
\* brand_service or description, and every item returned is such a row.
C8_SearchIsLiteralSubstring ==
    [][\A r \in Slots :
          LET S == req[r].query.search
          IN  (req[r].kind = "list" /\ ~Falsy(S))
                  => /\ (req[r].pc = "count" /\ req'[r].pc = "data")
                            => req'[r].total =
                                   Cardinality({row \in surveys : MentionsLiterally(row, S)})
                     /\ (req[r].pc = "data" /\ req'[r].pc = "idle"
                         /\ sent'.resp.status = 200)
                            => \A i \in 1..Len(sent'.resp.items) :
                                   MentionsLiterally(sent'.resp.items[i], S)]_vars

AdminKinds == {"list", "get", "delete"}

\* The text after the first ':' of the decoded payload (RFC 7617: the
\* password is everything after the first colon).
PresentedPass(decoded) ==
    SubSeq(decoded, IndexOfColon(decoded, 1) + 1, Len(decoded))

\* The header is "Basic " + base64 of "user:pass" for the configured user
\* and password.
Authorized(header, e) ==
    /\ Len(header) = 2
    /\ header[1] = BasicWord
    /\ header[2] # <<>>
    /\ \A i \in 1..Len(header[2]) : IsB64(header[2][i]) \/ header[2][i] = "="
    /\ LET decoded == Base64Decode(header[2])
       IN  /\ IndexOfColon(decoded, 1) > 0
           /\ e.ADMIN_USER # Undefined
           /\ e.ADMIN_PASS # Undefined
           /\ SplitUser(decoded) = e.ADMIN_USER
           /\ PresentedPass(decoded) = e.ADMIN_PASS

\* C3: a request to an admin endpoint whose Authorization header is absent,
\* malformed, or carries credentials other than the configured user and
\* password is answered 401 with the Basic challenge, and never enters the
\* admin handler (so it reads and changes no row).
C3_UnauthorizedIsRejected ==
    /\ (sent.slot # 0 /\ sent.req.kind \in AdminKinds /\ sent.req.pc = "acquire"
        /\ ~Authorized(sent.req.header, env))
           => (sent.resp.status = 401 /\ sent.resp.challenge)
    /\ \A r \in Slots :
           req[r].kind \in AdminKinds => Authorized(req[r].header, env)

\* C4: whatever strings the configured user and password are, the header
\* "Basic " + base64(user + ":" + password) built from them is accepted: the
\* request is not answered 401, and enters the handler with the user attached.
C4_ConfiguredCredentialsAccepted ==
    (env.ADMIN_USER # Undefined /\ env.ADMIN_PASS # Undefined)
        => /\ (sent.slot # 0 /\ sent.req.kind \in AdminKinds
               /\ sent.req.header = BasicHeader(env.ADMIN_USER, env.ADMIN_PASS))
                  => sent.resp.status # 401
           /\ \A r \in Slots :
                  (req[r].kind \in AdminKinds
                   /\ req[r].header = BasicHeader(env.ADMIN_USER, env.ADMIN_PASS))
                      => req[r].admin = env.ADMIN_USER

IsInteger(n) == ~n.nan

\* C7: whatever the page and limit parameters are, the page used is an
\* integer >= 1 (1 when absent), the limit used is an integer <= 100 (20 when
\* absent), the offset is (page-1)*limit, and a 200 echoes that page and limit.
C7_PageAndLimitAreNormalised ==
    /\ \A r \in Slots :
           req[r].kind = "list"
               => LET q == req[r].query
                  IN  /\ IsInteger(PageOf(q)) /\ PageOf(q).v >= 1
                      /\ (q.page = Undefined => PageOf(q).v = 1)
                      /\ IsInteger(LimitOf(q)) /\ LimitOf(q).v <= 100
                      /\ (q.limit = Undefined => LimitOf(q).v = 20)
                      /\ IsInteger(OffsetOf(q))
                      /\ OffsetOf(q).v = (PageOf(q).v - 1) * LimitOf(q).v
    /\ (Answered("list") /\ sent.resp.status = 200)
           => /\ sent.resp.page = PageOf(sent.req.query)
              /\ sent.resp.limit = LimitOf(sent.req.query)

GenericMessages ==
    {"Failed to save survey", "Failed to fetch surveys",
     "Failed to fetch survey detail", "Failed to delete survey", "Server error"}

\* C10: in each of the four handlers, a failure to get a connection or a
\* failing statement is answered 500 with a fixed generic error body that
\* carries none of the error's message, code or statement text.
C10_StoreFailureIsGeneric500 ==
    sent.err # NoError
        => /\ sent.resp.status = 500
           /\ sent.resp.error \in GenericMessages
           /\ sent.resp.error \notin {sent.err.message, sent.err.code, sent.err.sql}

\* The requests that hold a connection: getConnection() has resolved and the
\* handler has not left its try/finally.
Holding == {r \in Slots : req[r].pc \in {"insert", "count", "data", "select", "delete"}}

\* C11: the connections checked out of the pool are exactly those of the
\* requests still between getConnection() and the end of their handler: every
\* exit (success, 404, store error) gives its connection back exactly once, so
\* with no request in a handler no connection is checked out.
C11_ConnectionsAreReleased ==
    /\ pool = Cardinality(Holding)
    /\ (Holding = {} => pool = 0)

\* A statement of one request has just failed while the other request holds
\* its connection, after an earlier submission was stored.
C11_Witness ==
    /\ sent.err # NoError
    /\ sent.req.pc \in {"insert", "count", "data", "select", "delete"}
    /\ req[sent.slot].kind = "idle"
    /\ Cardinality(Holding) = 1
    /\ pool = 1
    /\ surveys # {}

\* C12: in every 200 of a list request, total is the number of stored rows
\* that match the search filter, and items are rows of that same filtered
\* set, so never more of them than total -- whatever submissions and
\* deletions ran between the request's count query and its data query.
C12_TotalMatchesItems ==
    (Answered("list") /\ sent.resp.status = 200)
        => LET matching == Filtered(surveys, SearchOf(sent.req.query))
           IN  /\ sent.resp.total = Cardinality(matching)
               /\ \A i \in 1..Len(sent.resp.items) : sent.resp.items[i] \in matching
               /\ Len(sent.resp.items) <= sent.resp.total

\* The header supplies a credential pair: "Basic ", then a well-formed base64
\* payload whose decoded text has a ':' separator.
CarriesPair(header) ==
    /\ Len(header) = 2
    /\ header[1] = BasicWord
    /\ header[2] # <<>>
    /\ \A i \in 1..Len(header[2]) : IsB64(header[2][i]) \/ header[2][i] = "="
    /\ IndexOfColon(Base64Decode(header[2]), 1) > 0

\* C13: an Authorization header that is missing, empty, not "Basic ...", of a
\* malformed base64 payload, or of a decoded payload without ':' is parsed as
\* "no credentials" (never as a pair), is answered 401, and is never let into
\* an admin handler, whatever the configured user and password are.
C13_NoCredentialsIsUniform ==
    /\ (sent.slot # 0 /\ sent.req.kind \in AdminKinds /\ ~CarriesPair(sent.req.header))
           => /\ ~parseBasicAuth(sent.req.header).present
              /\ sent.resp.status = 401
              /\ sent.resp.error = "Missing or invalid Authorization header"
    /\ \A r \in Slots :
           req[r].kind \in AdminKinds => CarriesPair(req[r].header)

====
